---- MODULE Spec2Model ----
(***************************************************************************)
(* Model of src/ststst.py: the UI-key registry (make_safe_key), the        *)
(* canonical key scheme (make_unique_key and its decoding in               *)
(* format_memo_data), the structure extractor (extract_structure), the     *)
(* project scanner (collect_project_structure) and the report formatter    *)
(* (format_memo_data).                                                     *)
(*                                                                         *)
(* A Python str is a sequence of one-character strings.  A dict is a       *)
(* sequence of <<key, value>> pairs with distinct keys, in insertion       *)
(* order.                                                                  *)
(***************************************************************************)
EXTENDS Integers, Sequences, FiniteSets, TLC

VARIABLES used_keys, returned,
          k_args, k_key, k_parts,
          memo_data, report, pc,
          fs, exclude_folders, project_path, pending, structure,
          source, outline

vars == <<used_keys, returned, k_args, k_key, k_parts, memo_data, report, pc,
          fs, exclude_folders, project_path, pending, structure, source, outline>>

\* Optional values: None is the empty tuple, a present value v is <<v>>
None == <<>>
Some(v) == <<v>>

(***************************************************************************)
(* Strings                                                                 *)
(***************************************************************************)

\* the string literals of the source, spelled out
MEMO_PREFIX == <<"m", "e", "m", "o", "_">>
DELIM == <<":", ":">>
MEMO_SLOT == <<"_", "_", "m", "e", "m", "o", "_", "_">>

RECURSIVE Join(_, _)
\* sep.join(parts)
Join(parts, sep) ==
    IF Len(parts) = 0 THEN <<>>
    ELSE IF Len(parts) = 1 THEN parts[1]
    ELSE parts[1] \o sep \o Join(Tail(parts), sep)

\* s.startswith(p)
StartsWith(s, p) == Len(s) >= Len(p) /\ SubSeq(s, 1, Len(p)) = p

\* the least index at which sep occurs in s, 0 when it does not (str.find + 1)
Find(s, sep) ==
    LET hits == {i \in 1..(Len(s) - Len(sep) + 1) : SubSeq(s, i, i + Len(sep) - 1) = sep}
    IN  IF hits = {} THEN 0 ELSE CHOOSE i \in hits : \A j \in hits : i <= j

RECURSIVE Split(_, _)
\* s.split(sep): left to right, occurrences do not overlap
Split(s, sep) ==
    LET i == Find(s, sep)
    IN  IF i = 0 THEN <<s>>
        ELSE <<SubSeq(s, 1, i - 1)>> \o Split(SubSeq(s, i + Len(sep), Len(s)), sep)

\* s.replace(old, new) for a one-character old and new
Replace(s, old, new) == [i \in 1..Len(s) |-> IF s[i] = old THEN new ELSE s[i]]

\* the characters str.strip() removes
Whitespace == {" ", "\n", "\t"}

\* "if not memo" in place of "if not memo.strip()"
StripNothing(s) == s

\* memo.strip(): drop the leading and the trailing whitespace
Strip(s) ==
    LET keep == {i \in 1..Len(s) : s[i] \notin Whitespace}
    IN  IF keep = {} THEN <<>>
        ELSE SubSeq(s, CHOOSE i \in keep : \A j \in keep : i <= j,
                       CHOOSE i \in keep : \A j \in keep : j <= i)

\* strings of length at most n over the alphabet A
StringsUpTo(A, n) == UNION {[1..k -> A] : k \in 0..n}

(***************************************************************************)
(* Key scheme: UI keys                                                     *)
(***************************************************************************)

\* length of the uuid suffix kept by make_safe_key is 8 hex digits in the
\* source; the model keeps HexLen digits over HexDigits
HexLen == 1
HexDigits == {"0", "1"}
MaxCalls == 3

\* uuid4().hex[:8]
UuidSuffixes == [1..HexLen -> HexDigits]

\* base = "memo_" + "_".join(a.replace("/", "_").replace(" ", "_") for a in args)
SafeBase(args) ==
    MEMO_PREFIX \o Join([i \in 1..Len(args) |-> Replace(Replace(args[i], "/", "_"), " ", "_")],
                        <<"_">>)

\* "if key in used_keys" in place of the while loop: the suffixed key is
\* not looked up again
SafeKeyOutcomesOnce(args, used) ==
    IF SafeBase(args) \notin used THEN {SafeBase(args)}
    ELSE {SafeBase(args) \o <<"_">> \o s : s \in UuidSuffixes}

\* the keys the while loop of make_safe_key can leave with: base itself when
\* it is free, otherwise any suffixed key that is free (the loop draws again
\* while the drawn key is used)
SafeKeyOutcomes(args, used) ==
    IF SafeBase(args) \notin used THEN {SafeBase(args)}
    ELSE {SafeBase(args) \o <<"_">> \o s : s \in UuidSuffixes} \ used

\* argument tuples of the calls: same tuple repeated, tuples that normalise
\* to the same base, and a tuple whose base is another one's suffixed key
SafeKeyArgs ==
    { <<<<"a", "/", "b">>>>, <<<<"a", "_", "b">>>>, <<<<"a", " ", "b">>>>,
      <<<<"a">>, <<"b">>>>, <<<<"a", "_", "b">>, <<"0">>>>, <<<<"a">>>> }

\* registry contents a process can have accumulated before the observed calls
InitialRegistries ==
    { {}, {SafeBase(<<<<"a">>, <<"b">>>>)},
      {SafeBase(<<<<"a">>, <<"b">>>>), SafeBase(<<<<"a">>, <<"b">>>>) \o <<"_", "0">>} }

\* make_safe_key(*args): returns key, adds it to used_keys
make_safe_key(args) ==
    /\ Len(returned) < MaxCalls
    /\ \E key \in SafeKeyOutcomes(args, used_keys) :
          /\ used_keys' = used_keys \cup {key}
          /\ returned' = Append(returned, key)
    /\ UNCHANGED <<k_args, k_key, k_parts, memo_data, report, pc,
                   fs, exclude_folders, project_path, pending, structure, source, outline>>

InitKeys ==
    /\ used_keys \in InitialRegistries /\ returned = <<>>
    /\ k_args = None /\ k_key = <<>> /\ k_parts = None
    /\ memo_data = <<>> /\ report = None /\ pc = "idle"
    /\ fs = {} /\ exclude_folders = {} /\ project_path = <<>>
    /\ pending = {} /\ structure = <<>>
    /\ source = None /\ outline = None

NextKeys == \E args \in SafeKeyArgs : make_safe_key(args)

SpecKeys == InitKeys /\ [][NextKeys]_vars

\* C1: no two make_safe_key calls return the same key, and every returned
\* key is in the registry once its call has returned
UIKeysUnique ==
    /\ \A i, j \in 1..Len(returned) : i # j => returned[i] # returned[j]
    /\ \A i \in 1..Len(returned) : returned[i] \in used_keys

\* three calls whose arguments normalise to one base returned, from a
\* registry that already held that base
UIKeysUniqueWitness ==
    /\ Len(returned) >= 2
    /\ \E i, j \in 1..Len(returned) :
          /\ i # j
          /\ StartsWith(returned[i], SafeBase(<<<<"a">>, <<"b">>>>) \o <<"_">>)
          /\ StartsWith(returned[j], SafeBase(<<<<"a">>, <<"b">>>>) \o <<"_">>)

(***************************************************************************)
(* Key scheme: canonical keys                                              *)
(***************************************************************************)

FILE == <<"f", "i", "l", "e">>
FUNCTION == <<"f", "u", "n", "c", "t", "i", "o", "n">>
CLASS == <<"c", "l", "a", "s", "s">>
METHOD == <<"m", "e", "t", "h", "o", "d">>
Kinds == {FILE, FUNCTION, CLASS, METHOD}

\* Path.cwd() of the process
Cwd == <<"/", "p">>

\* the segments of a path string: pathlib drops empty segments (repeated and
\* trailing separators) and '.' segments
Segments(path) == SelectSeq(Split(path, <<"/">>), LAMBDA seg : seg # <<>> /\ seg # <<".">>)

IsAbsolute(path) == StartsWith(path, <<"/">>)

\* str(Path(path).resolve()): a relative path is taken from the working
\* directory, separators are collapsed.  The path alphabet of the model has
\* no '.', so there are no '.' or '..' segments to fold, and no symlinks.
Resolve(path) ==
    LET segs == IF IsAbsolute(path) THEN Segments(path)
                ELSE Segments(Cwd) \o Segments(path)
    IN  <<"/">> \o Join(segs, <<"/">>)

\* make_unique_key(file_path, scope_type, scope_name, parent_name=None);
\* the md5 digest the source computes is not used in the result
make_unique_key(file_path, scope_type, scope_name, parent_name) ==
    LET parts == <<Resolve(file_path), scope_type, scope_name>>
        parts2 == IF parent_name # None /\ parent_name[1] # <<>>
                  THEN Append(parts, parent_name[1]) ELSE parts
    IN  MEMO_PREFIX \o Join(parts2, DELIM)

\* the number of segments below which format_memo_data skips a key
MinSegments == 3

\* parent = parts[3] if len(parts) == 4 else None
ParentOf(parts) == IF Len(parts) = 4 THEN Some(parts[4]) ELSE None

\* lines 80-89 of format_memo_data: the decoding of one key.  ok is FALSE
\* when the key is skipped (no prefix, or fewer than 3 segments)
DecodeKey(key) ==
    IF ~StartsWith(key, MEMO_PREFIX)
    THEN [ok |-> FALSE, path |-> <<>>, scope |-> <<>>, name |-> <<>>, parent |-> None]
    ELSE LET raw == SubSeq(key, Len(MEMO_PREFIX) + 1, Len(key))
             parts == Split(raw, DELIM)
         IN  IF Len(parts) < MinSegments
             THEN [ok |-> FALSE, path |-> <<>>, scope |-> <<>>, name |-> <<>>, parent |-> None]
             ELSE [ok |-> TRUE, path |-> parts[1], scope |-> parts[2], name |-> parts[3],
                   parent |-> ParentOf(parts)]

MaxNameLen == 2
NameAlphabet == {"a", ":"}
ScopeNames == StringsUpTo(NameAlphabet, MaxNameLen)
ParentNames == {None} \cup {Some(n) : n \in ScopeNames}
KeyPaths ==
    { <<"/", "p", "/", "a">>, <<"/", "p", "/", "a", ":">>, <<"/", "q">>,
      <<"a">>, <<"/", "p", "/", "/", "a">> }

InitCanon ==
    /\ used_keys = {} /\ returned = <<>>
    /\ k_args \in [path : KeyPaths, kind : Kinds, name : ScopeNames, parent : ParentNames]
    /\ k_key = <<>> /\ k_parts = None
    /\ memo_data = <<>> /\ report = None /\ pc = "input"
    /\ fs = {} /\ exclude_folders = {} /\ project_path = <<>>
    /\ pending = {} /\ structure = <<>>
    /\ source = None /\ outline = None

\* the presentation layer builds the canonical key of a declaration
Encode ==
    /\ pc = "input"
    /\ k_key' = make_unique_key(k_args.path, k_args.kind, k_args.name, k_args.parent)
    /\ pc' = "encoded"
    /\ UNCHANGED <<used_keys, returned, k_args, k_parts, memo_data, report,
                   fs, exclude_folders, project_path, pending, structure, source, outline>>

\* the formatter decodes it
Decode ==
    /\ pc = "encoded"
    /\ k_parts' = Some(DecodeKey(k_key))
    /\ pc' = "decoded"
    /\ UNCHANGED <<used_keys, returned, k_args, k_key, memo_data, report,
                   fs, exclude_folders, project_path, pending, structure, source, outline>>

NextCanon == Encode \/ Decode

SpecCanon == InitCanon /\ [][NextCanon]_vars

HasDelim(s) == Find(s, DELIM) # 0

\* an absolute canonical path, and components without the delimiter; a
\* parent is absent or a non-empty string
ValidScope(a) ==
    /\ Resolve(a.path) = a.path
    /\ ~HasDelim(a.path) /\ ~HasDelim(a.name)
    /\ a.parent # None => (a.parent[1] # <<>> /\ ~HasDelim(a.parent[1]))

\* C2: decoding the canonical key of a valid (path, kind, name, parent)
\* gives back exactly that tuple
CanonicalRoundTrip ==
    (pc = "decoded" /\ ValidScope(k_args)) =>
        k_parts = Some([ok |-> TRUE, path |-> k_args.path, scope |-> k_args.kind,
                        name |-> k_args.name, parent |-> k_args.parent])

(***************************************************************************)
(* Report formatter                                                        *)
(***************************************************************************)

\* dict operations: d[k] = v keeps the position of a key already present
DictHas(d, k) == \E i \in 1..Len(d) : d[i][1] = k
DictGet(d, k) == d[CHOOSE i \in 1..Len(d) : d[i][1] = k][2]
DictSet(d, k, v) ==
    IF DictHas(d, k) THEN [i \in 1..Len(d) |-> IF d[i][1] = k THEN <<k, v>> ELSE d[i]]
    ELSE Append(d, <<k, v>>)

\* the default factory of tree (lines 68-74)
DefaultContent == [file_memo |-> <<>>, functions |-> <<>>, classes |-> <<>>]

\* tree[path] and content["__classes__"][name] of the defaultdicts: a missing
\* key reads as the default (and is inserted by the store that follows)
TreeGet(tree, path) == IF DictHas(tree, path) THEN DictGet(tree, path) ELSE DefaultContent
ClassGet(classes, name) == IF DictHas(classes, name) THEN DictGet(classes, name) ELSE <<>>

\* "elif scope == 'method' and parent": the truth value of parent
Truthy(parent) == parent # None /\ parent[1] # <<>>

\* the body of the loop over memo_data.items() (lines 76-98)
StoreEntry(tree, key, memo) ==
    IF Strip(memo) = <<>> THEN tree
    ELSE LET d == DecodeKey(key)
             content == TreeGet(tree, d.path)
         IN  IF ~d.ok THEN tree
             ELSE IF d.scope = FILE
             THEN DictSet(tree, d.path, [content EXCEPT !.file_memo = memo])
             ELSE IF d.scope = FUNCTION
             THEN DictSet(tree, d.path,
                          [content EXCEPT !.functions = DictSet(@, d.name, memo)])
             ELSE IF d.scope = CLASS
             THEN DictSet(tree, d.path,
                          [content EXCEPT !.classes =
                              DictSet(@, d.name, DictSet(ClassGet(@, d.name), MEMO_SLOT, memo))])
             ELSE IF d.scope = METHOD /\ Truthy(d.parent)
             THEN DictSet(tree, d.path,
                          [content EXCEPT !.classes =
                              DictSet(@, d.parent[1],
                                      DictSet(ClassGet(@, d.parent[1]), d.name, memo))])
             ELSE tree

RECURSIVE BuildTreeFrom(_, _, _)
BuildTreeFrom(data, i, tree) ==
    IF i > Len(data) THEN tree
    ELSE BuildTreeFrom(data, i + 1, StoreEntry(tree, data[i][1], data[i][2]))

\* the tree after the first loop of format_memo_data
BuildTree(data) == BuildTreeFrom(data, 1, <<>>)

\* the characters of the model in code point order
CodeOrder ==
    <<"\t", "\n", " ", "(", ")", ".", "/", "0", "1", ":", "C", "D", "F", "L", "N", "S",
      "U", "[", "]", "_", "a", "b", "c", "d", "e", "f", "g", "h", "i", "l", "m", "n",
      "o", "p", "q", "s", "t", "u", "x", "y">>
Ord(c) == CHOOSE i \in 1..Len(CodeOrder) : CodeOrder[i] = c

RECURSIVE StrLess(_, _)
\* a < b on str: the first differing character decides, a proper prefix is less
StrLess(a, b) ==
    IF b = <<>> THEN FALSE
    ELSE IF a = <<>> THEN TRUE
    ELSE IF a[1] = b[1] THEN StrLess(Tail(a), Tail(b))
    ELSE Ord(a[1]) < Ord(b[1])

\* tree.items() in place of sorted(tree.items())
UnsortedItems(d) == d

RECURSIVE SortedItems(_)
\* sorted(tree.items()): the keys are distinct, so the key alone decides
SortedItems(d) ==
    IF d = <<>> THEN <<>>
    ELSE LET m == CHOOSE i \in 1..Len(d) : \A j \in 1..Len(d) : j # i => StrLess(d[i][1], d[j][1])
         IN  <<d[m]>> \o SortedItems([i \in 1..(Len(d) - 1) |-> IF i < m THEN d[i] ELSE d[i + 1]])

\* str(Path(path).relative_to(base)): ok is FALSE where pathlib raises
\* ValueError (path is not under base)
RelativeTo(path, base) ==
    LET ps == Segments(path)
        bs == Segments(base)
    IN  IF IsAbsolute(path) = IsAbsolute(base) /\ Len(bs) <= Len(ps)
           /\ SubSeq(ps, 1, Len(bs)) = bs
        THEN [ok |-> TRUE,
              text |-> IF Len(ps) = Len(bs) THEN <<".">>
                       ELSE Join(SubSeq(ps, Len(bs) + 1, Len(ps)), <<"/">>)]
        ELSE [ok |-> FALSE, text |-> <<>>]

\* one appended line, before it is formatted
Line(kind, path, cls, name, memo) ==
    [kind |-> kind, path |-> path, cls |-> cls, name |-> name, memo |-> memo]

\* lines 110-112: the method lines of one class
MethodLines(path, cls, cls_content) ==
    LET shown == SelectSeq(cls_content, LAMBDA kv : kv[1] # MEMO_SLOT)
    IN  [i \in 1..Len(shown) |-> Line("method", path, cls, shown[i][1], shown[i][2])]

\* cls_content.get('__memo__', '')
ClassMemo(cls_content) ==
    IF DictHas(cls_content, MEMO_SLOT) THEN DictGet(cls_content, MEMO_SLOT) ELSE <<>>

RECURSIVE ClassLines(_, _, _)
\* lines 108-112, from the i-th class on
ClassLines(path, classes, i) ==
    IF i > Len(classes) THEN <<>>
    ELSE <<Line("class", path, classes[i][1], classes[i][1], ClassMemo(classes[i][2]))>>
         \o MethodLines(path, classes[i][1], classes[i][2])
         \o ClassLines(path, classes, i + 1)

\* lines 103-113: the lines of one file
BlockLines(path, rel, content) ==
    <<Line("header", path, <<>>, rel, <<>>)>>
    \o (IF content.file_memo # <<>>
        THEN <<Line("file_memo", path, <<>>, <<>>, content.file_memo)>> ELSE <<>>)
    \o [i \in 1..Len(content.functions) |->
           Line("func", path, <<>>, content.functions[i][1], content.functions[i][2])]
    \o ClassLines(path, content.classes, 1)
    \o <<Line("blank", path, <<>>, <<>>, <<>>)>>

RECURSIVE RenderFromSkipping(_, _, _)
\* the ValueError caught per file: the file is left out and the loop goes on
RenderFromSkipping(items, i, lines) ==
    IF i > Len(items) THEN [ok |-> TRUE, lines |-> lines]
    ELSE LET rel == RelativeTo(items[i][1], Cwd)
         IN  IF ~rel.ok THEN RenderFromSkipping(items, i + 1, lines)
             ELSE RenderFromSkipping(items, i + 1,
                                     lines \o BlockLines(items[i][1], rel.text, items[i][2]))

RECURSIVE RenderFrom(_, _, _)
\* the second loop (lines 101-113): relative_to raising ends the call with
\* the exception, whatever lines holds by then
RenderFrom(items, i, lines) ==
    IF i > Len(items) THEN [ok |-> TRUE, lines |-> lines]
    ELSE LET rel == RelativeTo(items[i][1], Cwd)
         IN  IF ~rel.ok THEN [ok |-> FALSE, lines |-> <<>>]
             ELSE RenderFrom(items, i + 1,
                             lines \o BlockLines(items[i][1], rel.text, items[i][2]))

\* the list lines at line 115, or the ValueError
ReportLines(data) == RenderFrom(SortedItems(BuildTree(data)), 1, <<>>)

FILE_ICON == "U+1F4C4"
PIN_ICON == "U+1F4CC"

\* the f-strings of lines 103-113
FormatLine(l) ==
    IF l.kind = "header" THEN <<FILE_ICON, " ">> \o l.name
    ELSE IF l.kind = "file_memo" THEN <<" ", " ", PIN_ICON, " ">> \o l.memo
    ELSE IF l.kind = "func"
    THEN <<" ", " ", "[", "F", "U", "N", "C", "]", " ">> \o l.name
         \o <<"(", ")", " ", ":", " ">> \o l.memo
    ELSE IF l.kind = "class"
    THEN <<" ", " ", "[", "C", "L", "A", "S", "S", "]", " ">> \o l.name
         \o <<" ", ":", " ">> \o l.memo
    ELSE IF l.kind = "method"
    THEN <<" ", " ", " ", " ", "U+2514", "U+2500", "U+2500", " ", "d", "e", "f", " ">>
         \o l.name \o <<"(", ")", " ", ":", " ">> \o l.memo
    ELSE <<>>

\* format_memo_data(memo_data): the returned text, or the error raised
format_memo_data(data) ==
    LET r == ReportLines(data)
    IN  IF r.ok
        THEN [ok |-> TRUE,
              text |-> Join([i \in 1..Len(r.lines) |-> FormatLine(r.lines[i])], <<"\n">>)]
        ELSE [ok |-> FALSE, text |-> <<>>]

(***************************************************************************)
(* One rendering pass of main: the annotation map is filled, then exported *)
(***************************************************************************)

MaxEntries == 3

PA == <<"/", "p", "/", "a">>
PB == <<"/", "p", "/", "b">>
PX == <<"/", "p", "a">>
QA == <<"/", "q", "/", "a">>

\* a key spelled out segment by segment
RawKey(parts) == MEMO_PREFIX \o Join(parts, DELIM)

\* (key, text) pairs of the pass: keys of make_unique_key for declarations of
\* files under and outside the working directory, and keys no declaration has
CandidateEntries ==
    { <<make_unique_key(PA, FILE, <<"a">>, None), <<"x">>>>,
      <<make_unique_key(PA, FUNCTION, <<"f">>, None), <<"x">>>>,
      <<make_unique_key(PA, FUNCTION, <<"g">>, None), <<"y">>>>,
      <<RawKey(<<PA, FUNCTION, <<"f">>, <<"D">>>>), <<"y">>>>,
      <<make_unique_key(PA, CLASS, <<"C">>, None), <<"x">>>>,
      <<make_unique_key(PA, CLASS, <<"C">>, None), <<>>>>,
      <<make_unique_key(PA, METHOD, <<"m">>, Some(<<"C">>)), <<"y">>>>,
      <<make_unique_key(PA, METHOD, MEMO_SLOT, Some(<<"C">>)), <<"y">>>>,
      <<make_unique_key(PA, METHOD, <<"n">>, Some(<<"D">>)), <<"x">>>>,
      <<make_unique_key(PB, CLASS, <<"C">>, None), <<"y">>>>,
      <<make_unique_key(QA, FUNCTION, <<"f">>, None), <<"x">>>>,
      <<make_unique_key(QA, FUNCTION, <<"f">>, None), <<"\n", " ">>>>,
      <<make_unique_key(PX, FILE, <<"p", "a">>, None), <<"y">>>>,
      <<RawKey(<<QA, METHOD, <<"m">>>>), <<"x">>>>,
      <<RawKey(<<PA, METHOD, <<"m">>, <<"C">>, <<"x">>>>), <<"x">>>>,
      <<RawKey(<<QA, FILE>>), <<"x">>>>,
      <<Join(<<QA, CLASS, <<"C">>>>, DELIM), <<"x">>>> }

InitPass ==
    /\ used_keys = {} /\ returned = <<>>
    /\ k_args = None /\ k_key = <<>> /\ k_parts = None
    /\ memo_data = <<>> /\ report = None /\ pc = "collect"
    /\ fs = {} /\ exclude_folders = {} /\ project_path = <<>>
    /\ pending = {} /\ structure = <<>>
    /\ source = None /\ outline = None

\* memo_data[unique_key] = memo (lines 148, 164, 178, 194)
SetMemo(key, memo) ==
    /\ pc = "collect"
    /\ Len(DictSet(memo_data, key, memo)) <= MaxEntries
    /\ memo_data' = DictSet(memo_data, key, memo)
    /\ UNCHANGED <<used_keys, returned, k_args, k_key, k_parts, report, pc,
                   fs, exclude_folders, project_path, pending, structure, source, outline>>

\* data=format_memo_data(memo_data) (line 208)
Export ==
    /\ pc = "collect"
    /\ report' = Some(format_memo_data(memo_data))
    /\ pc' = "exported"
    /\ UNCHANGED <<used_keys, returned, k_args, k_key, k_parts, memo_data,
                   fs, exclude_folders, project_path, pending, structure, source, outline>>

\* the next pass starts from memo_data = {} (line 139)
Rerun ==
    /\ pc = "exported"
    /\ memo_data' = <<>> /\ report' = None /\ pc' = "collect"
    /\ UNCHANGED <<used_keys, returned, k_args, k_key, k_parts,
                   fs, exclude_folders, project_path, pending, structure, source, outline>>

NextPass ==
    \/ \E e \in CandidateEntries : SetMemo(e[1], e[2])
    \/ Export
    \/ Rerun

Spec == InitPass /\ [][NextPass]_vars

\* what the claims say about an entry, in their own words
IsBlank(text) == \A i \in 1..Len(text) : text[i] \in Whitespace
SegmentsOfKey(key) == Split(SubSeq(key, Len(MEMO_PREFIX) + 1, Len(key)), DELIM)
HasPrefix(key) == StartsWith(key, MEMO_PREFIX)
Filtered(e) == IsBlank(e[2]) \/ ~HasPrefix(e[1]) \/ Len(SegmentsOfKey(e[1])) < 3
UnderCwd(path) == path = Cwd \/ StartsWith(path, Cwd \o <<"/">>)
Without(data, i) == [j \in 1..(Len(data) - 1) |-> IF j < i THEN data[j] ELSE data[j + 1]]

\* the entries the formatter keeps: not filtered, and of kind file, function
\* or class, or of kind method with the parent the formatter decodes
Retained(e) ==
    /\ ~Filtered(e)
    /\ \/ DecodeKey(e[1]).scope \in {FILE, FUNCTION, CLASS}
       \/ DecodeKey(e[1]).scope = METHOD /\ Truthy(DecodeKey(e[1]).parent)

\* C3: a filtered entry (blank text, no prefix, fewer than 3 segments) raises
\* no error and contributes nothing: the export equals the export of the map
\* without that entry
FilterRule ==
    pc = "exported" =>
        \A i \in 1..Len(memo_data) :
            Filtered(memo_data[i]) => report[1] = format_memo_data(Without(memo_data, i))

\* a filtered entry between two rendered ones, and a report came out
FilterRuleWitness ==
    /\ pc = "exported" /\ Len(memo_data) = 3
    /\ Filtered(memo_data[2]) /\ Retained(memo_data[1]) /\ Retained(memo_data[3])
    /\ report[1].ok /\ report[1].text # <<>>

\* C5: a retained entry whose path is not under the working directory makes
\* the export fail with no report text, never a partial report
AllOrNothing ==
    (pc = "exported"
       /\ \E i \in 1..Len(memo_data) :
             Retained(memo_data[i]) /\ ~UnderCwd(DecodeKey(memo_data[i][1]).path))
    => (~report[1].ok /\ report[1].text = <<>>)

\* the offending path sorts after a path that renders
AllOrNothingWitness ==
    /\ pc = "exported" /\ ~report[1].ok
    /\ \E i, j \in 1..Len(memo_data) :
          /\ Retained(memo_data[i]) /\ UnderCwd(DecodeKey(memo_data[i][1]).path)
          /\ Retained(memo_data[j]) /\ ~UnderCwd(DecodeKey(memo_data[j][1]).path)
          /\ StrLess(DecodeKey(memo_data[i][1]).path, DecodeKey(memo_data[j][1]).path)

\* the least index of data whose entry satisfies P, 0 when there is none
FirstIndex(data, P(_)) ==
    LET hits == {i \in 1..Len(data) : P(data[i])}
    IN  IF hits = {} THEN 0 ELSE CHOOSE i \in hits : \A j \in hits : i <= j

\* the entries that insert a function name, a class name, a method name
InsertsFunction(e, path, name) ==
    /\ Retained(e) /\ DecodeKey(e[1]).path = path
    /\ DecodeKey(e[1]).scope = FUNCTION /\ DecodeKey(e[1]).name = name
InsertsMethod(e, path, cls, name) ==
    /\ Retained(e) /\ DecodeKey(e[1]).path = path
    /\ DecodeKey(e[1]).scope = METHOD /\ DecodeKey(e[1]).parent = Some(cls)
    /\ DecodeKey(e[1]).name = name
InsertsClass(e, path, cls) ==
    /\ Retained(e) /\ DecodeKey(e[1]).path = path
    /\ \/ DecodeKey(e[1]).scope = CLASS /\ DecodeKey(e[1]).name = cls
       \/ DecodeKey(e[1]).scope = METHOD /\ DecodeKey(e[1]).parent = Some(cls)

\* the place of a line's kind in a file block; class and method lines
\* interleave
Rank(kind) ==
    CASE kind = "header" -> 0 [] kind = "file_memo" -> 1 [] kind = "func" -> 2
      [] kind = "class" -> 3 [] kind = "method" -> 3 [] kind = "blank" -> 4

\* the order of the lines i < j of the list L built from data
InOrder(data, L, i, j) ==
    /\ L[i].path = L[j].path \/ StrLess(L[i].path, L[j].path)
    /\ L[i].path = L[j].path =>
          /\ Rank(L[i].kind) <= Rank(L[j].kind)
          /\ Rank(L[i].kind) = Rank(L[j].kind) => Rank(L[i].kind) \in {2, 3}
          /\ (L[i].kind = "func" /\ L[j].kind = "func") =>
                FirstIndex(data, LAMBDA e : InsertsFunction(e, L[i].path, L[i].name))
                  < FirstIndex(data, LAMBDA e : InsertsFunction(e, L[j].path, L[j].name))
          /\ (L[i].kind = "class" /\ L[j].kind = "class") =>
                FirstIndex(data, LAMBDA e : InsertsClass(e, L[i].path, L[i].name))
                  < FirstIndex(data, LAMBDA e : InsertsClass(e, L[j].path, L[j].name))
          /\ (L[i].kind = "method" /\ L[j].kind = "method" /\ L[i].cls = L[j].cls) =>
                FirstIndex(data, LAMBDA e : InsertsMethod(e, L[i].path, L[i].cls, L[i].name))
                  < FirstIndex(data, LAMBDA e : InsertsMethod(e, L[j].path, L[j].cls, L[j].name))
          /\ (L[i].kind = "class" /\ L[j].kind = "method"
                /\ \A k \in (i + 1)..(j - 1) : L[k].kind # "class") =>
                L[j].cls = L[i].name

ParentDecoding ==
    (pc = "exported" /\ report[1].ok) =>
        LET L == ReportLines(memo_data).lines
        IN  \A i \in 1..Len(memo_data) :
              LET e == memo_data[i]
                  segs == SegmentsOfKey(e[1])
              IN  (HasPrefix(e[1]) /\ ~IsBlank(e[2]) /\ Len(segs) >= 3 /\ segs[2] = METHOD) =>
                     /\ (Len(segs) >= 4 /\ segs[4] # <<>>) =>
                           \E k \in 1..Len(L) :
                              /\ L[k].kind = "method" /\ L[k].path = segs[1]
                              /\ L[k].cls = segs[4] /\ L[k].name = segs[3]
                     /\ Len(segs) = 3 =>
                           report[1] = format_memo_data(Without(memo_data, i))

\* an entry made by make_unique_key for a declaration of a file under the
\* working directory, with a non-blank text
WellFormed(e) ==
    LET d == DecodeKey(e[1])
    IN  /\ ~IsBlank(e[2]) /\ d.ok /\ d.scope \in Kinds /\ UnderCwd(d.path)
        /\ (d.scope = METHOD) <=> Truthy(d.parent)
        /\ d.parent # None => Truthy(d.parent)
        /\ ~HasDelim(d.path) /\ ~HasDelim(d.name)
        /\ e[1] = make_unique_key(d.path, d.scope, d.name, d.parent)

\* C10: in a map of well-formed entries every class entry shows its own text
\* on its class line and every method entry has exactly one method line,
\* with its own text, under its class
ClassMethodApart ==
    (pc = "exported" /\ \A i \in 1..Len(memo_data) : WellFormed(memo_data[i])) =>
        /\ report[1].ok
        /\ LET L == ReportLines(memo_data).lines
           IN  \A i \in 1..Len(memo_data) :
                 LET e == memo_data[i]
                     d == DecodeKey(e[1])
                 IN  /\ d.scope = CLASS =>
                           \E k \in 1..Len(L) :
                              /\ L[k].kind = "class" /\ L[k].path = d.path
                              /\ L[k].name = d.name /\ L[k].memo = e[2]
                     /\ d.scope = METHOD =>
                           /\ Cardinality({k \in 1..Len(L) :
                                 /\ L[k].kind = "method" /\ L[k].path = d.path
                                 /\ L[k].cls = d.parent[1] /\ L[k].name = d.name}) = 1
                           /\ \E k \in 1..Len(L) :
                                 /\ L[k].kind = "method" /\ L[k].path = d.path
                                 /\ L[k].cls = d.parent[1] /\ L[k].name = d.name
                                 /\ L[k].memo = e[2]

(***************************************************************************)
(* Structure extractor                                                     *)
(***************************************************************************)

MaxNodes == 3
MaxDepth == 3

DeclNames == {<<"f">>, <<"g">>}

\* the statements the model keeps of a body: class and function definitions
\* and, for the other compound statements, ast.If.  A node is its ast type,
\* its name and its body
NodeLabels ==
    {[type |-> t, name |-> n] : t \in {"ClassDef", "FunctionDef", "AsyncFunctionDef"},
                                n \in DeclNames}
    \cup {[type |-> "If", name |-> <<>>]}

RECURSIVE Bodies(_, _)
\* the statement lists of n nodes in all, nested at most d deep
Bodies(n, d) ==
    IF n = 0 THEN {<<>>}
    ELSE IF d = 0 THEN {}
    ELSE UNION { { <<[type |-> l.type, name |-> l.name, body |-> b]>> \o rest :
                     l \in NodeLabels, b \in Bodies(k - 1, d - 1), rest \in Bodies(n - k, d) }
                 : k \in 1..n }

\* what a source file holds: text ast.parse accepts, seen as its Module
\* body, or text it rejects
Sources ==
    {[valid |-> TRUE, body |-> b] : b \in UNION {Bodies(n, MaxDepth) : n \in 0..MaxNodes}}
    \cup {[valid |-> FALSE, body |-> <<>>]}

RECURSIVE ast_walk(_)
\* ast.walk(tree) in place of ast.iter_child_nodes(tree): every statement at
\* every depth
ast_walk(body) ==
    IF body = <<>> THEN <<>>
    ELSE <<body[1]>> \o ast_walk(body[1].body) \o ast_walk(Tail(body))

\* ast.iter_child_nodes(tree) of a Module: the statements of its body
iter_child_nodes(body) == body

\* lines 45-47: the methods of one class appended to classes[node.name]
RECURSIVE AddMethods(_, _, _, _)
AddMethods(classes, cls, body, j) ==
    IF j > Len(body) THEN classes
    ELSE IF body[j].type = "FunctionDef"
    THEN AddMethods(DictSet(classes, cls, Append(ClassGet(classes, cls), body[j].name)),
                    cls, body, j + 1)
    ELSE AddMethods(classes, cls, body, j + 1)

RECURSIVE ExtractFrom(_, _, _, _)
\* the loop of lines 43-49 from the i-th child on
ExtractFrom(nodes, i, classes, functions) ==
    IF i > Len(nodes) THEN [ok |-> TRUE, classes |-> classes, functions |-> functions]
    ELSE IF nodes[i].type = "ClassDef"
    THEN ExtractFrom(nodes, i + 1, AddMethods(classes, nodes[i].name, nodes[i].body, 1),
                     functions)
    ELSE IF nodes[i].type = "FunctionDef"
    THEN ExtractFrom(nodes, i + 1, classes, Append(functions, nodes[i].name))
    ELSE ExtractFrom(nodes, i + 1, classes, functions)

\* extract_structure(file_path) on the content of the file; ok is FALSE
\* where ast.parse raises SyntaxError
extract_structure(src) ==
    IF ~src.valid THEN [ok |-> FALSE, classes |-> <<>>, functions |-> <<>>]
    ELSE ExtractFrom(iter_child_nodes(src.body), 1, <<>>, <<>>)

InitAst ==
    /\ used_keys = {} /\ returned = <<>>
    /\ k_args = None /\ k_key = <<>> /\ k_parts = None
    /\ memo_data = <<>> /\ report = None /\ pc = "parse"
    /\ fs = {} /\ exclude_folders = {} /\ project_path = <<>>
    /\ pending = {} /\ structure = <<>>
    /\ source \in {Some(src) : src \in Sources} /\ outline = None

Extract ==
    /\ pc = "parse"
    /\ outline' = Some(extract_structure(source[1]))
    /\ pc' = "extracted"
    /\ UNCHANGED <<used_keys, returned, k_args, k_key, k_parts, memo_data, report,
                   fs, exclude_folders, project_path, pending, structure, source>>

NextAst == Extract

SpecAst == InitAst /\ [][NextAst]_vars

\* the names of the FunctionDef statements of a body, in source order
DefNames(body) ==
    LET defs == SelectSeq(body, LAMBDA n : n.type = "FunctionDef")
    IN  [i \in 1..Len(defs) |-> defs[i].name]

\* C7: 'functions' is the function definitions that are direct children of
\* the module, in source order; every key of 'classes' is a class that is a
\* direct child of the module and every method name under it a function
\* definition that is a direct child of such a class: nothing defined inside
\* a function or a method appears
DepthLimit ==
    (pc = "extracted" /\ source[1].valid) =>
        LET out == outline[1]
            body == source[1].body
        IN  /\ out.ok
            /\ out.functions = DefNames(body)
            /\ \A c \in 1..Len(out.classes) :
                  /\ \E i \in 1..Len(body) :
                        body[i].type = "ClassDef" /\ body[i].name = out.classes[c][1]
                  /\ \A m \in 1..Len(out.classes[c][2]) :
                        \E i \in 1..Len(body) :
                           /\ body[i].type = "ClassDef" /\ body[i].name = out.classes[c][1]
                           /\ \E j \in 1..Len(body[i].body) :
                                 /\ body[i].body[j].type = "FunctionDef"
                                 /\ body[i].body[j].name = out.classes[c][2][m]

\* a method that defines a function of another name, which is in no list
DepthLimitWitness ==
    /\ pc = "extracted" /\ source[1].valid
    /\ \E i \in 1..Len(source[1].body) :
          LET cls == source[1].body[i]
          IN  /\ cls.type = "ClassDef" /\ Len(cls.body) = 1
              /\ cls.body[1].type = "FunctionDef" /\ Len(cls.body[1].body) = 1
              /\ cls.body[1].body[1].type = "FunctionDef"
              /\ cls.body[1].body[1].name # cls.body[1].name
              /\ outline[1].functions = <<>>
              /\ outline[1].classes = <<<<cls.name, <<cls.body[1].name>>>>>>

\* C8: every class that is a direct child of the module is a key of 'classes'
\* whose value is the names of the function definitions that are direct
\* children of that class body, empty when it has none
ClassCoverage ==
    (pc = "extracted" /\ source[1].valid) =>
        \A i \in 1..Len(source[1].body) :
            source[1].body[i].type = "ClassDef" =>
                /\ DictHas(outline[1].classes, source[1].body[i].name)
                /\ DictGet(outline[1].classes, source[1].body[i].name)
                     = DefNames(source[1].body[i].body)

(***************************************************************************)
(* Project scanner                                                         *)
(***************************************************************************)

MaxFiles == 2

PY == <<".", "p", "y">>
A_PY == <<"a">> \o PY
B_PY == <<"b">> \o PY

\* s.endswith(p)
EndsWith(s, p) == Len(s) >= Len(p) /\ SubSeq(s, Len(s) - Len(p) + 1, Len(s)) = p

\* the folders of the tree below the root, as tuples of folder names, down
\* to three levels
Folders ==
    { <<>>, <<<<"k">>>>, <<<<"t">>>>, <<<<"k">>, <<"t">>>>, <<<<"t">>, <<"k">>>>,
      <<<<"k">>, <<"s">>, <<"t">>>> }

\* the files a tree can hold: b.py does not parse, a has no .py suffix
FileNames == {A_PY, B_PY, <<"a">>}
SampleBody ==
    << [type |-> "ClassDef", name |-> <<"f">>,
        body |-> <<[type |-> "FunctionDef", name |-> <<"g">>, body |-> <<>>]>>],
       [type |-> "FunctionDef", name |-> <<"g">>, body |-> <<>>] >>
SourceOf(file) ==
    IF file.name = B_PY THEN [valid |-> FALSE, body |-> <<>>]
    ELSE [valid |-> TRUE, body |-> SampleBody]

Files == {[dir |-> d, name |-> n] : d \in Folders, n \in FileNames}
ExcludeSets == { {}, {<<"t">>}, {<<"t">>, <<"k">>}, {A_PY} }
ProjectPaths == { <<".">>, <<"r">>, <<"/", "t", "/", "r">> }

\* Path(project_path).rglob("*.py"): the files below the root whose name
\* matches, each as project_path / dir / name
rglob_py(files) == {f \in files : EndsWith(f.name, PY)}

\* py_file.parts (the anchor of an absolute path stands first)
Parts(root, file) ==
    (IF IsAbsolute(root) THEN <<<<"/">>>> ELSE <<>>)
    \o Segments(root) \o file.dir \o <<file.name>>

\* py_file.parent.name in exclude_folders: only the containing folder
HasExcludedParent(root, file, excluded) ==
    file.dir # <<>> /\ file.dir[Len(file.dir)] \in excluded

\* any(part in exclude_folders for part in py_file.parts)
HasExcludedPart(root, file, excluded) ==
    \E i \in 1..Len(Parts(root, file)) : Parts(root, file)[i] \in excluded

\* str(py_file.relative_to(project_path).parent)
FolderOf(file) == IF file.dir = <<>> THEN <<".">> ELSE Join(file.dir, <<"/">>)

\* structure[folder][py_file.name] = value on the defaultdict(dict)
StructureSet(struct, folder, name, value) ==
    DictSet(struct, folder, DictSet(ClassGet(struct, folder), name, value))

InitScan ==
    /\ used_keys = {} /\ returned = <<>>
    /\ k_args = None /\ k_key = <<>> /\ k_parts = None
    /\ memo_data = <<>> /\ report = None /\ pc = "scan"
    /\ fs \in {F \in SUBSET Files : Cardinality(F) <= MaxFiles}
    /\ exclude_folders \in ExcludeSets
    /\ project_path \in ProjectPaths
    /\ pending = rglob_py(fs) /\ structure = <<>>
    /\ source = None /\ outline = None

\* line 58-59: the file rglob yields next has an excluded part
ScanSkip(f) ==
    /\ pc = "scan" /\ f \in pending
    /\ HasExcludedPart(project_path, f, exclude_folders)
    /\ pending' = pending \ {f}
    /\ UNCHANGED <<used_keys, returned, k_args, k_key, k_parts, memo_data, report, pc,
                   fs, exclude_folders, project_path, structure, source, outline>>

\* lines 60-62: it has none and parses
ScanAdd(f) ==
    /\ pc = "scan" /\ f \in pending
    /\ ~HasExcludedPart(project_path, f, exclude_folders)
    /\ extract_structure(SourceOf(f)).ok
    /\ structure' = StructureSet(structure, FolderOf(f), f.name,
                                 <<extract_structure(SourceOf(f)), Parts(project_path, f)>>)
    /\ pending' = pending \ {f}
    /\ UNCHANGED <<used_keys, returned, k_args, k_key, k_parts, memo_data, report, pc,
                   fs, exclude_folders, project_path, source, outline>>

\* line 62: extract_structure raises, the scan ends without a catalog
ScanFail(f) ==
    /\ pc = "scan" /\ f \in pending
    /\ ~HasExcludedPart(project_path, f, exclude_folders)
    /\ ~extract_structure(SourceOf(f)).ok
    /\ pc' = "failed" /\ structure' = <<>> /\ pending' = {}
    /\ UNCHANGED <<used_keys, returned, k_args, k_key, k_parts, memo_data, report,
                   fs, exclude_folders, project_path, source, outline>>

\* line 63: return structure
ScanReturn ==
    /\ pc = "scan" /\ pending = {}
    /\ pc' = "done"
    /\ UNCHANGED <<used_keys, returned, k_args, k_key, k_parts, memo_data, report,
                   fs, exclude_folders, project_path, pending, structure, source, outline>>

NextScan ==
    \/ \E f \in Files : ScanSkip(f) \/ ScanAdd(f) \/ ScanFail(f)
    \/ ScanReturn

SpecScan == InitScan /\ [][NextScan]_vars

\* the files of the returned catalog, by the path stored with each
Catalogued ==
    UNION { {structure[i][2][j][2][2] : j \in 1..Len(structure[i][2])} :
            i \in 1..Len(structure) }

\* C4: no file with a folder or file name below the root equal to an
\* excluded name is in the returned catalog, under any folder key
Exclusion ==
    pc = "done" =>
        \A f \in fs :
            (\E i \in 1..Len(f.dir) : f.dir[i] \in exclude_folders) \/ f.name \in exclude_folders
            => Parts(project_path, f) \notin Catalogued

\* a file three folders down, under an excluded folder, is left out of a
\* catalog that holds another file
ExclusionWitness ==
    /\ pc = "done" /\ structure # <<>>
    /\ \E f \in fs :
          /\ Len(f.dir) = 3 /\ EndsWith(f.name, PY)
          /\ f.dir[3] \in exclude_folders
          /\ Parts(project_path, f) \notin Catalogued

====
